---- MODULE Spec2Model ----
(***************************************************************************)
(* Weather/shipment ETL: the weather ingestion (fetch_weather_for_city,    *)
(* collect_and_store_weather_data) and the fact join                       *)
(* (preprocess_and_join).                                                  *)
(*                                                                         *)
(* Python values are modelled as follows.  A dict is a function whose      *)
(* DOMAIN is its key set, a list is a sequence, None/NaN is Null, a        *)
(* string that the code inspects character by character (a city name) is   *)
(* a sequence of one-character strings.  An upstream weather value is the  *)
(* symbolic pair <<variable, index>>: the code only moves such values.     *)
(***************************************************************************)
EXTENDS Integers, Sequences, FiniteSets, TLC

VARIABLES
    \* fetch_weather_for_city
    city_info,            \* the argument
    retries,              \* the argument
    attempt,              \* the loop variable of `for attempt in range(retries)`
    pc,                   \* "idle" | "for" | "try" | "except" | "done"
    result,               \* the returned list
    raised,               \* an exception left the function
    calls,                \* history: requests.get invocations of this call
    sleeps,               \* history: time.sleep invocations of this call
    fails,                \* history: attempts of this call that raised
    lastResp,             \* history: what the endpoint answered last
    \* collect_and_store_weather_data
    cities,               \* what fetch_cities_from_db returned
    cpc,                  \* "idle" | "start" | "loop" | "fetching" | "done" | "crashed"
    idx,                  \* position of the loop over cities (1-based)
    all_weather_records,  \* the accumulated list
    returned,             \* history: city_weather of every iteration so far
    written,              \* the CSV was written (df.to_csv)
    \* preprocess_and_join
    shipments_df,         \* the argument, modified in place
    cities_df,            \* the argument, modified in place
    weather_df,           \* the argument, modified in place
    merged_weather,       \* the local of lines 100-113
    result_df,            \* the returned table
    jpc,                  \* "idle" | "start" | "normalize" | "merge" | "returned"
    args                  \* history: the three tables as they were passed

fetchVars   == <<city_info, retries, attempt, pc, result, raised, calls, sleeps,
                 fails, lastResp>>
collectVars == <<cities, cpc, idx, all_weather_records, returned, written>>
joinVars    == <<shipments_df, cities_df, weather_df, merged_weather, result_df,
                 jpc, args>>
vars        == <<fetchVars, collectVars, joinVars>>

----------------------------------------------------------------------------
(* Bounds *)
MaxRetries == 3
MaxSeries == 2
MaxCities == 3

(* Program constants *)
DefaultRetries == 3

Null == <<>>

WEATHER_PARAMS == <<"temperature_2m", "windspeed_10m", "precipitation", "weathercode">>

ParamSet == {WEATHER_PARAMS[k] : k \in 1..Len(WEATHER_PARAMS)}

----------------------------------------------------------------------------
(* Inputs *)

Locations ==
    { [city |-> "Miami",  latitude |-> 25, longitude |-> 0 - 80],
      [city |-> "Berlin", latitude |-> 52, longitude |-> 13] }

EmptyDict == [k \in {} |-> Null]

\* The variable arrays the upstream response leaves out.
OmitSets == { {}, {"precipitation"}, ParamSet }

\* An `hourly` object: a `time` array of n hours (when withTime) and one
\* index-aligned array per variable that is not omitted.
Hourly(n, omitted, withTime) ==
    [k \in (IF withTime THEN {"time"} ELSE {}) \cup (ParamSet \ omitted) |->
        IF k = "time" THEN [i \in 1..n |-> <<"hour", i>>]
                      ELSE [i \in 1..n |-> <<k, i>>]]

JsonBodies ==
    {EmptyDict}
    \cup {[k \in {"hourly"} |-> Hourly(0, {}, FALSE)]}
    \cup {[k \in {"hourly"} |-> Hourly(n, om, TRUE)] : n \in 0..MaxSeries, om \in OmitSets}

\* What one requests.get + raise_for_status + json() can produce.
Responses ==
    {[kind |-> k, data |-> EmptyDict] : k \in {"network", "http", "decode"}}
    \cup {[kind |-> "json", data |-> d] : d \in JsonBodies}

NoResp == [kind |-> "none", data |-> EmptyDict]

RECURSIVE SeqsUpTo(_, _)
SeqsUpTo(S, n) ==
    IF n = 0 THEN {<<>>}
    ELSE LET shorter == SeqsUpTo(S, n - 1)
         IN  shorter \cup {Append(s, x) : s \in {t \in shorter : Len(t) = n - 1}, x \in S}

\* The concatenation of a list of lists
RECURSIVE Flatten(_)
Flatten(lists) == IF lists = <<>> THEN <<>> ELSE Head(lists) \o Flatten(Tail(lists))

----------------------------------------------------------------------------
(* fetch_weather_for_city *)

\* dict.get(key, default)
Get(d, key, default) == IF key \in DOMAIN d THEN d[key] ELSE default

\* list[i] with a 0-based i: IndexError past the end
InRange(list, i) == i < Len(list)

\* One observation: lines 86-92.
Observation(city, hourly_data, time_series, i) ==
    [city        |-> city.city,
     latitude    |-> city.latitude,
     longitude   |-> city.longitude,
     timestamp   |-> time_series[i + 1],
     temperature_2m |-> Get(hourly_data, "temperature_2m", <<Null>>)[i + 1],
     windspeed_10m  |-> Get(hourly_data, "windspeed_10m", <<Null>>)[i + 1],
     precipitation  |-> Get(hourly_data, "precipitation", <<Null>>)[i + 1],
     weathercode    |-> Get(hourly_data, "weathercode", <<Null>>)[i + 1]]

\* The body of the try block, lines 76-94: the exception it raises ("none"
\* when it returns) and the rows it returns.
TryBody(city, resp) ==
    IF resp.kind = "network" THEN [exc |-> "ConnectionError", rows |-> <<>>]
    ELSE IF resp.kind = "http" THEN [exc |-> "HTTPError", rows |-> <<>>]
    ELSE IF resp.kind = "decode" THEN [exc |-> "JSONDecodeError", rows |-> <<>>]
    ELSE
      LET hourly_data == Get(resp.data, "hourly", EmptyDict)
          time_series == Get(hourly_data, "time", <<>>)
      IN  IF Len(time_series) = 0
          THEN [exc |-> "ValueError", rows |-> <<>>]
          ELSE IF \E i \in 0..(Len(time_series) - 1), p \in ParamSet :
                      ~InRange(Get(hourly_data, p, <<Null>>), i)
          THEN [exc |-> "IndexError", rows |-> <<>>]
          ELSE [exc |-> "none",
                rows |-> [j \in 1..Len(time_series) |->
                             Observation(city, hourly_data, time_series, j - 1)]]

CatchesOnlyRequestErrors(exc) == exc \in {"ConnectionError", "HTTPError"}

\* `except Exception`, line 96
Catches(exc) == TRUE

\* for attempt in range(retries), line 74; lines 100-101 when the range is
\* exhausted
FetchFor ==
    /\ pc = "for"
    /\ IF attempt < retries
       THEN /\ pc' = "try"
            /\ UNCHANGED result
       ELSE /\ pc' = "done"
            /\ result' = <<>>
    /\ UNCHANGED <<city_info, retries, attempt, raised, calls, sleeps, fails, lastResp>>
    /\ UNCHANGED <<collectVars, joinVars>>

FetchTrySleepAlways ==
    /\ pc = "try"
    /\ \E resp \in Responses :
         LET r == TryBody(city_info, resp)
         IN  /\ calls' = calls + 1
             /\ lastResp' = resp
             /\ IF r.exc = "none"
                THEN /\ result' = r.rows
                     /\ pc' = "done"
                     /\ sleeps' = sleeps + 1
                     /\ UNCHANGED <<fails, raised>>
                ELSE /\ fails' = fails + 1
                     /\ pc' = "except"
                     /\ UNCHANGED <<result, raised, sleeps>>
    /\ UNCHANGED <<city_info, retries, attempt>>
    /\ UNCHANGED <<collectVars, joinVars>>

\* One attempt, lines 75-97: the request, and either the return of line 85
\* or the except clause.
FetchTry ==
    /\ pc = "try"
    /\ \E resp \in Responses :
         LET r == TryBody(city_info, resp)
         IN  /\ calls' = calls + 1
             /\ lastResp' = resp
             /\ IF r.exc = "none"
                THEN /\ result' = r.rows
                     /\ pc' = "done"
                     /\ UNCHANGED <<fails, raised>>
                ELSE /\ fails' = fails + 1
                     /\ IF Catches(r.exc)
                        THEN /\ pc' = "except"
                             /\ UNCHANGED raised
                        ELSE /\ pc' = "done"
                             /\ raised' = TRUE
                     /\ UNCHANGED result
    /\ UNCHANGED <<city_info, retries, attempt, sleeps>>
    /\ UNCHANGED <<collectVars, joinVars>>

\* time.sleep(delay), line 98, and the next iteration
FetchSleep ==
    /\ pc = "except"
    /\ sleeps' = sleeps + 1
    /\ attempt' = attempt + 1
    /\ pc' = "for"
    /\ UNCHANGED <<city_info, retries, result, raised, calls, fails, lastResp>>
    /\ UNCHANGED <<collectVars, joinVars>>

FetchStep == FetchFor \/ FetchTry \/ FetchSleep

----------------------------------------------------------------------------
(* collect_and_store_weather_data *)

FetchIdle ==
    /\ city_info = Null
    /\ retries = DefaultRetries
    /\ attempt = 0
    /\ pc = "idle"
    /\ result = <<>>
    /\ raised = FALSE
    /\ calls = 0
    /\ sleeps = 0
    /\ fails = 0
    /\ lastResp = NoResp

CollectIdle ==
    /\ cities = <<>>
    /\ cpc = "idle"
    /\ idx = 0
    /\ all_weather_records = <<>>
    /\ returned = <<>>
    /\ written = FALSE

JoinIdle ==
    /\ shipments_df = <<>>
    /\ cities_df = <<>>
    /\ weather_df = <<>>
    /\ merged_weather = <<>>
    /\ result_df = <<>>
    /\ jpc = "idle"
    /\ args = <<>>

\* list.extend
Extend(list, more) == list \o more

\* Lines 147-152: the catalog read and the early return on an empty catalog.
CollectStart ==
    /\ cpc = "start"
    /\ IF cities = <<>>
       THEN /\ cpc' = "done"
            /\ UNCHANGED idx
       ELSE /\ cpc' = "loop"
            /\ idx' = 1
    /\ all_weather_records' = <<>>
    /\ UNCHANGED <<cities, returned, written>>
    /\ UNCHANGED fetchVars
    /\ UNCHANGED joinVars

\* Lines 154-155: the call fetch_weather_for_city(city) of one iteration,
\* with the default retries and delay.
CollectCall ==
    /\ cpc = "loop"
    /\ idx <= Len(cities)
    /\ cpc' = "fetching"
    /\ city_info' = cities[idx]
    /\ retries' = DefaultRetries
    /\ attempt' = 0
    /\ pc' = "for"
    /\ result' = <<>>
    /\ calls' = 0
    /\ sleeps' = 0
    /\ fails' = 0
    /\ lastResp' = NoResp
    /\ UNCHANGED raised
    /\ UNCHANGED <<cities, idx, all_weather_records, returned, written>>
    /\ UNCHANGED joinVars

CollectExtendAbortOnFailure ==
    /\ cpc = "fetching"
    /\ pc = "done"
    /\ pc' = "idle"
    /\ IF raised
       THEN /\ cpc' = "crashed"
            /\ UNCHANGED <<idx, all_weather_records, returned>>
       ELSE /\ returned' = Append(returned, result)
            /\ IF result # <<>>
               THEN /\ all_weather_records' = Extend(all_weather_records, result)
                    /\ idx' = idx + 1
                    /\ cpc' = "loop"
               ELSE /\ cpc' = "done"
                    /\ UNCHANGED <<all_weather_records, idx>>
    /\ UNCHANGED <<cities, written>>
    /\ UNCHANGED <<city_info, retries, attempt, result, raised, calls, sleeps, fails, lastResp>>
    /\ UNCHANGED joinVars

\* Lines 155-157: the call returns city_weather, which is appended when it
\* is not empty.
CollectExtend ==
    /\ cpc = "fetching"
    /\ pc = "done"
    /\ pc' = "idle"
    /\ IF raised
       THEN /\ cpc' = "crashed"
            /\ UNCHANGED <<idx, all_weather_records, returned>>
       ELSE /\ returned' = Append(returned, result)
            /\ all_weather_records' =
                  IF result # <<>> THEN Extend(all_weather_records, result)
                                   ELSE all_weather_records
            /\ idx' = idx + 1
            /\ cpc' = "loop"
    /\ UNCHANGED <<cities, written>>
    /\ UNCHANGED <<city_info, retries, attempt, result, raised, calls, sleeps, fails, lastResp>>
    /\ UNCHANGED joinVars

CollectFinishAlwaysWrites ==
    /\ cpc = "loop"
    /\ idx > Len(cities)
    /\ cpc' = "done"
    /\ written' = TRUE
    /\ UNCHANGED <<cities, idx, all_weather_records, returned>>
    /\ UNCHANGED fetchVars
    /\ UNCHANGED joinVars

\* Lines 159-171: after the loop, return when nothing was collected,
\* otherwise write the CSV.
CollectFinish ==
    /\ cpc = "loop"
    /\ idx > Len(cities)
    /\ cpc' = "done"
    /\ written' = (all_weather_records # <<>>)
    /\ UNCHANGED <<cities, idx, all_weather_records, returned>>
    /\ UNCHANGED fetchVars
    /\ UNCHANGED joinVars

\* A call fetch_weather_for_city(city, retries=N)
InitFetch ==
    /\ city_info \in Locations
    /\ retries \in 0..MaxRetries
    /\ attempt = 0
    /\ pc = "for"
    /\ result = <<>>
    /\ raised = FALSE
    /\ calls = 0
    /\ sleeps = 0
    /\ fails = 0
    /\ lastResp = NoResp
    /\ CollectIdle
    /\ JoinIdle

NextFetch == FetchStep

SpecFetch == InitFetch /\ [][NextFetch]_vars

\* A run of collect_and_store_weather_data; cities is what
\* fetch_cities_from_db returned (empty when the catalog is empty or the
\* query failed, lines 135-137).
InitCollect ==
    /\ cities \in SeqsUpTo(Locations, MaxCities)
    /\ cpc = "start"
    /\ idx = 0
    /\ all_weather_records = <<>>
    /\ returned = <<>>
    /\ written = FALSE
    /\ FetchIdle
    /\ JoinIdle

NextCollect ==
    \/ CollectStart
    \/ CollectCall
    \/ FetchStep
    \/ CollectExtend
    \/ CollectFinish

SpecCollect == InitCollect /\ [][NextCollect]_vars

----------------------------------------------------------------------------
(* preprocess_and_join: values *)

Whitespace == {" "}

\* str.lower on one character
LowerChar(c) ==
    CASE c = "M" -> "m"
      [] c = "I" -> "i"
      [] c = "B" -> "b"
      [] OTHER   -> c

\* str.lower
Lower(s) == [i \in 1..Len(s) |-> LowerChar(s[i])]

RECURSIVE LStrip(_)
LStrip(s) == IF s # <<>> /\ Head(s) \in Whitespace THEN LStrip(Tail(s)) ELSE s

RECURSIVE RStrip(_)
RStrip(s) ==
    IF s # <<>> /\ s[Len(s)] \in Whitespace THEN RStrip(SubSeq(s, 1, Len(s) - 1)) ELSE s

\* str.strip
Strip(s) == RStrip(LStrip(s))

NormalizeLowerOnly(s) == Lower(s)

\* .str.strip().str.lower(), lines 97, 98 and 110
Normalize(s) == Lower(Strip(s))

MinutesPerHour == 60

\* pd.to_datetime of a day of the month and a time of day: the minutes since
\* the start of the month
ToDatetime(t) == (t.day * 24 + t.hour) * MinutesPerHour + t.minute

FloorHourIdentity(t) == t

\* .dt.floor("h"), lines 109 and 113
FloorHour(t) == t - (t % MinutesPerHour)

\* A value of a column that holds NaN in some rows
Some(v) == <<v>>

----------------------------------------------------------------------------
(* preprocess_and_join: inputs *)

Time(d, h, m) == [day |-> d, hour |-> h, minute |-> m]

\* (start_location, shipment_start_timestamp) of a shipment row
ShipmentKinds ==
    << <<<<" ", "M", "i">>, Time(1, 8, 15)>>,
       <<<<" ", "M", "i">>, Time(1, 9, 0)>>,
       <<<<"B">>,           Time(1, 9, 0)>>,
       <<<<"B">>,           Time(2, 9, 0)>> >>

\* (name, latitude, longitude) of a catalog row
CityKinds ==
    << <<<<"M", "i">>,      25, 80>>,
       <<<<" ", "m", "i">>, 25, 80>>,
       <<<<"M", "i">>,      52, 13>>,
       <<<<"B">>,           52, 13>> >>

\* (city, latitude, longitude, timestamp) of a weather CSV row
WeatherKinds ==
    << <<<<"m", "i", " ">>, 25, 80, Time(1, 8, 0)>>,
       <<<<"m", "i", " ">>, 25, 80, Time(1, 8, 30)>>,
       <<<<"M", "I">>,      52, 13, Time(1, 8, 0)>>,
       <<<<"m", " ", "i">>, 25, 80, Time(1, 8, 0)>>,
       <<<<"b">>,           52, 13, Time(1, 9, 0)>> >>

MaxShipments == 2
MaxCatalog == 2
MaxWeather == 2

\* The rows of a table in every order would only repeat each table under a
\* renumbering of its rows: tables are enumerated with their rows' kinds in
\* non-decreasing order.
KindLists(kinds, n) ==
    {s \in SeqsUpTo(1..Len(kinds), n) :
        \A i \in 1..Len(s) : \A j \in 1..Len(s) : i < j => s[i] <= s[j]}

ShipmentRow(k, pos) ==
    [id |-> pos,
     start_location |-> ShipmentKinds[k][1],
     shipment_start_timestamp |-> ShipmentKinds[k][2],
     consumed_fuel |-> 10 + pos]

CityRow(k, pos) ==
    [id |-> 8 + pos,
     name |-> CityKinds[k][1],
     latitude |-> CityKinds[k][2],
     longitude |-> CityKinds[k][3]]

WeatherRow(k, pos) ==
    [city |-> WeatherKinds[k][1],
     latitude |-> WeatherKinds[k][2],
     longitude |-> WeatherKinds[k][3],
     timestamp |-> WeatherKinds[k][4],
     temperature_2m |-> <<"temperature_2m", pos>>,
     windspeed_10m |-> <<"windspeed_10m", pos>>,
     precipitation |-> <<"precipitation", pos>>,
     weathercode |-> <<"weathercode", pos>>]

ShipmentTables ==
    {[i \in 1..Len(s) |-> ShipmentRow(s[i], i)] : s \in KindLists(ShipmentKinds, MaxShipments)}

CityTables ==
    {[i \in 1..Len(s) |-> CityRow(s[i], i)] : s \in KindLists(CityKinds, MaxCatalog)}

WeatherTables ==
    {[i \in 1..Len(s) |-> WeatherRow(s[i], i)] : s \in KindLists(WeatherKinds, MaxWeather)}

----------------------------------------------------------------------------
(* preprocess_and_join *)

\* DataFrame.empty
Empty(df) == Len(df) = 0

\* pd.merge(weather_df, cities_df, how="left", left_on=[city, latitude,
\* longitude], right_on=[name, latitude, longitude]), lines 100-106: the
\* rows one weather row gives
LeftMergeRow(w, catalog) ==
    LET OnKeys(c) == /\ c.name = w.city
                     /\ c.latitude = w.latitude
                     /\ c.longitude = w.longitude
        matches == SelectSeq(catalog, OnKeys)
    IN  IF matches = <<>>
        THEN << w @@ [id |-> Null, name |-> Null] >>
        ELSE [j \in 1..Len(matches) |->
                w @@ [id |-> Some(matches[j].id), name |-> matches[j].name]]

LeftMerge(weather, catalog) ==
    Flatten([i \in 1..Len(weather) |-> LeftMergeRow(weather[i], catalog)])

\* One row of the inner merge: the columns of both sides, `id` of the two
\* sides suffixed _x and _y
FactRow(s, m) ==
    [id_x |-> s.id,
     start_location |-> s.start_location,
     shipment_start_timestamp |-> s.shipment_start_timestamp,
     consumed_fuel |-> s.consumed_fuel,
     hourly_timestamp |-> s.hourly_timestamp,
     city |-> s.city,
     latitude |-> m.latitude,
     longitude |-> m.longitude,
     timestamp |-> m.timestamp,
     temperature_2m |-> m.temperature_2m,
     windspeed_10m |-> m.windspeed_10m,
     precipitation |-> m.precipitation,
     weathercode |-> m.weathercode,
     id_y |-> m.id,
     name |-> m.name]

InnerMergeRowFirstMatch(s, merged) ==
    LET OnKeys(m) == /\ m.city = s.city
                     /\ m.hourly_timestamp = s.hourly_timestamp
        matches == SelectSeq(merged, OnKeys)
    IN  IF matches = <<>> THEN <<>> ELSE << FactRow(s, matches[1]) >>

\* pd.merge(shipments_df, merged_weather, how="inner", on=[city,
\* hourly_timestamp]), lines 115-120: the rows one shipment gives
InnerMergeRow(s, merged) ==
    LET OnKeys(m) == /\ m.city = s.city
                     /\ m.hourly_timestamp = s.hourly_timestamp
        matches == SelectSeq(merged, OnKeys)
    IN  [j \in 1..Len(matches) |-> FactRow(s, matches[j])]

KeepUnmatchedShipments(shipments, merged) ==
    Flatten([i \in 1..Len(shipments) |->
        IF InnerMergeRow(shipments[i], merged) = <<>>
        THEN << FactRow(shipments[i],
                        [latitude |-> Null, longitude |-> Null, timestamp |-> Null,
                         temperature_2m |-> Null, windspeed_10m |-> Null,
                         precipitation |-> Null, weathercode |-> Null,
                         id |-> Null, name |-> Null]) >>
        ELSE InnerMergeRow(shipments[i], merged)])

InnerMerge(shipments, merged) ==
    Flatten([i \in 1..Len(shipments) |-> InnerMergeRow(shipments[i], merged)])

\* Lines 126-140: the selected columns under their FactRecord names
Project(fact_df) ==
    [i \in 1..Len(fact_df) |->
        [shipment_id |-> fact_df[i].id_x,
         city_id |-> fact_df[i].id_y,
         timestamp |-> fact_df[i].shipment_start_timestamp,
         fuel_consumed_liters |-> fact_df[i].consumed_fuel,
         temperature_2m |-> fact_df[i].temperature_2m,
         windspeed_10m |-> fact_df[i].windspeed_10m,
         precipitation |-> fact_df[i].precipitation,
         weathercode |-> fact_df[i].weathercode]]

JoinGuardAllEmpty ==
    /\ jpc = "start"
    /\ IF Empty(shipments_df) /\ Empty(cities_df) /\ Empty(weather_df)
       THEN /\ jpc' = "returned"
            /\ result_df' = <<>>
       ELSE /\ jpc' = "normalize"
            /\ UNCHANGED result_df
    /\ UNCHANGED <<shipments_df, cities_df, weather_df, merged_weather, args>>
    /\ UNCHANGED <<fetchVars, collectVars>>

\* Lines 93-95: return an empty table when any input is empty.
JoinGuard ==
    /\ jpc = "start"
    /\ IF Empty(shipments_df) \/ Empty(cities_df) \/ Empty(weather_df)
       THEN /\ jpc' = "returned"
            /\ result_df' = <<>>
       ELSE /\ jpc' = "normalize"
            /\ UNCHANGED result_df
    /\ UNCHANGED <<shipments_df, cities_df, weather_df, merged_weather, args>>
    /\ UNCHANGED <<fetchVars, collectVars>>

\* Lines 97-113: the normalized names, the weather/catalog left merge and the
\* hourly timestamps of both sides.
JoinPreprocess ==
    /\ jpc = "normalize"
    /\ cities_df' = [i \in 1..Len(cities_df) |->
                        [cities_df[i] EXCEPT !.name = Normalize(@)]]
    /\ weather_df' = [i \in 1..Len(weather_df) |->
                        [weather_df[i] EXCEPT !.city = Normalize(@)]]
    /\ shipments_df' =
          [i \in 1..Len(shipments_df) |->
              LET ts == ToDatetime(shipments_df[i].shipment_start_timestamp)
              IN  [shipments_df[i] EXCEPT !.shipment_start_timestamp = ts]
                  @@ [hourly_timestamp |-> FloorHour(ts),
                      city |-> Normalize(shipments_df[i].start_location)]]
    /\ merged_weather' =
          LET merged == LeftMerge(weather_df', cities_df')
          IN  [i \in 1..Len(merged) |->
                  LET ts == ToDatetime(merged[i].timestamp)
                  IN  [merged[i] EXCEPT !.timestamp = ts]
                      @@ [hourly_timestamp |-> FloorHour(ts)]]
    /\ jpc' = "merge"
    /\ UNCHANGED <<result_df, args>>
    /\ UNCHANGED <<fetchVars, collectVars>>

\* Lines 115-143: the inner merge, the empty result when nothing matches,
\* and the projection.
JoinMerge ==
    /\ jpc = "merge"
    /\ LET fact_df == InnerMerge(shipments_df, merged_weather)
       IN  result_df' = IF Empty(fact_df) THEN <<>> ELSE Project(fact_df)
    /\ jpc' = "returned"
    /\ UNCHANGED <<shipments_df, cities_df, weather_df, merged_weather, args>>
    /\ UNCHANGED <<fetchVars, collectVars>>

\* A call preprocess_and_join(shipments_df, cities_df, weather_df)
InitJoin ==
    /\ shipments_df \in ShipmentTables
    /\ cities_df \in CityTables
    /\ weather_df \in WeatherTables
    /\ args = [shipments |-> shipments_df, cities |-> cities_df, weather |-> weather_df]
    /\ merged_weather = <<>>
    /\ result_df = <<>>
    /\ jpc = "start"
    /\ FetchIdle
    /\ CollectIdle

NextJoin == JoinGuard \/ JoinPreprocess \/ JoinMerge

SpecJoin == InitJoin /\ [][NextJoin]_vars

----------------------------------------------------------------------------
(* Claims about fetch_weather_for_city, under SpecFetch *)

\* C1: when the call has ended and every attempt it made raised (network
\* error, HTTP status, JSON decode, empty or missing time series, or any
\* other exception), the endpoint was invoked exactly `retries` times, no
\* exception left the call, and the call returned the empty list.
C1_RetryBound ==
    (pc = "done" /\ fails = calls) =>
        (calls = retries /\ ~raised /\ result = <<>>)

C1_Witness ==
    /\ pc = "done"
    /\ retries >= 2
    /\ fails = calls
    /\ calls = retries
    /\ lastResp.kind \in {"network", "http", "decode", "json"}

\* A response that decodes and holds a non-empty time series.
HasSeries(resp) ==
    /\ resp.kind = "json"
    /\ "hourly" \in DOMAIN resp.data
    /\ "time" \in DOMAIN resp.data["hourly"]
    /\ Len(resp.data["hourly"]["time"]) > 0

\* The observations C2 promises for such a response: one per timestamp,
\* each variable the upstream value at that index, null for a variable
\* whose array is omitted.
PromisedValue(hourly, p, i) == IF p \in DOMAIN hourly THEN hourly[p][i] ELSE Null

PromisedObservations(city, resp) ==
    LET hourly == resp.data["hourly"]
    IN  [i \in 1..Len(hourly["time"]) |->
            [city        |-> city.city,
             latitude    |-> city.latitude,
             longitude   |-> city.longitude,
             timestamp   |-> hourly["time"][i],
             temperature_2m |-> PromisedValue(hourly, "temperature_2m", i),
             windspeed_10m  |-> PromisedValue(hourly, "windspeed_10m", i),
             precipitation  |-> PromisedValue(hourly, "precipitation", i),
             weathercode    |-> PromisedValue(hourly, "weathercode", i)]]

\* C2: an attempt whose response decodes and holds a non-empty time series
\* (of any length) ends the call with one observation per timestamp, each
\* variable holding the upstream value at that index, or null when the
\* response omits that variable's array.
C2_SeriesYieldsObservations ==
    (pc \in {"except", "done"} /\ HasSeries(lastResp)) =>
        (pc = "done" /\ ~raised /\ result = PromisedObservations(city_info, lastResp))

\* C10: when the call has ended on a successful attempt, that attempt is the
\* first success (attempt k = calls, all k-1 earlier ones raised), k is at
\* most `retries`, the call returns that attempt's observations, and
\* exactly k-1 delays were taken.
C10_FirstSuccessEndsCall ==
    (pc = "done" /\ fails < calls) =>
        /\ calls = fails + 1
        /\ calls <= retries
        /\ sleeps = calls - 1
        /\ ~raised
        /\ HasSeries(lastResp)
        /\ result = PromisedObservations(city_info, lastResp)

C10_Witness ==
    /\ pc = "done"
    /\ calls = 2
    /\ fails = 1
    /\ sleeps = 1
    /\ Len(result) = 2

----------------------------------------------------------------------------
(* Claims about collect_and_store_weather_data, under SpecCollect *)

Succeeded(city_weather) == city_weather # <<>>

\* C3: the accumulated table is the concatenation of what the succeeding
\* locations returned, every observation in it is of the location of its
\* iteration, and when the run ends every catalog location has been
\* fetched, whatever the earlier ones returned.
C3_PartialCoverage ==
    /\ all_weather_records = Flatten(SelectSeq(returned, Succeeded))
    /\ \A i \in 1..Len(returned) : \A j \in 1..Len(returned[i]) :
          returned[i][j].city = cities[i].city
    /\ cpc = "done" => Len(returned) = Len(cities)

\* Three locations: the first fails all its retries, the other two succeed.
C3_Witness ==
    /\ cpc = "done"
    /\ written
    /\ Len(cities) = 3
    /\ Len(returned) = 3
    /\ returned[1] = <<>>
    /\ returned[2] # <<>>
    /\ returned[3] # <<>>
    /\ all_weather_records = returned[2] \o returned[3]

\* C4: the CSV is written only when the accumulated table is not empty; a
\* run whose table is empty ends without writing.
C4_NoPersistWhenEmpty ==
    /\ written => all_weather_records # <<>>
    /\ (cpc = "done" /\ all_weather_records = <<>>) => ~written

C4_Witness ==
    /\ cpc = "done"
    /\ Len(cities) > 0
    /\ Len(returned) = Len(cities)
    /\ all_weather_records = <<>>
    /\ ~written

----------------------------------------------------------------------------
(* Claims about preprocess_and_join, under SpecJoin *)

Returned == jpc = "returned"

AnyArgEmpty == args.shipments = <<>> \/ args.cities = <<>> \/ args.weather = <<>>

Min(S) == CHOOSE x \in S : \A y \in S : x <= y
Max(S) == CHOOSE x \in S : \A y \in S : x >= y

\* A name without its surrounding whitespace
Core(s) ==
    LET solid == {i \in 1..Len(s) : s[i] # " "}
    IN  IF solid = {} THEN <<>> ELSE SubSeq(s, Min(solid), Max(solid))

CasePairs == { <<"M", "m">>, <<"I", "i">>, <<"B", "b">> }

SameLetter(x, y) == x = y \/ <<x, y>> \in CasePairs \/ <<y, x>> \in CasePairs

\* Two names that differ at most in letter case and surrounding whitespace
SameName(a, b) ==
    /\ Len(Core(a)) = Len(Core(b))
    /\ \A i \in 1..Len(Core(a)) : SameLetter(Core(a)[i], Core(b)[i])

\* A key as the joins compare it: no surrounding whitespace, no capital
Canonical(k) == Core(k) = k /\ \A i \in 1..Len(k) : \A p \in CasePairs : k[i] # p[1]

\* Two timestamps, as passed, in the same hour of the same day
SameHour(t, u) == t.day = u.day /\ t.hour = u.hour

\* A shipment and a weather observation, as passed, that the claims call
\* matching
Matching(s, w) ==
    /\ SameName(s.start_location, w.city)
    /\ SameHour(s.shipment_start_timestamp, w.timestamp)

Range(seq) == {seq[i] : i \in 1..Len(seq)}

\* The positions of the result rows of shipment s
RowsOfShipment(s) == {i \in 1..Len(result_df) : result_df[i].shipment_id = s.id}

\* The positions of the result rows of shipment s and weather observation w
\* (every weather row carries its own values)
RowsOfPair(s, w) ==
    {i \in RowsOfShipment(s) : result_df[i].temperature_2m = w.temperature_2m}

\* The catalog rows, as passed, equal to observation w on the keys of the
\* weather/catalog merge
CatalogMatches(w) ==
    {c \in Range(args.cities) :
        /\ SameName(c.name, w.city)
        /\ c.latitude = w.latitude
        /\ c.longitude = w.longitude}

\* C5: when any of the three tables passed is empty, the call returns an
\* empty table, has merged nothing and leaves the three tables as passed.
C5_EmptyInputShortCircuit ==
    (Returned /\ AnyArgEmpty) =>
        /\ result_df = <<>>
        /\ merged_weather = <<>>
        /\ shipments_df = args.shipments
        /\ cities_df = args.cities
        /\ weather_df = args.weather

C5_Witness ==
    /\ Returned
    /\ args.cities = <<>>
    /\ args.shipments # <<>>
    /\ args.weather # <<>>
    /\ result_df = <<>>

\* C6: a shipment that no weather observation matches (same name up to case
\* and surrounding whitespace, same hour) has no row in the result,
\* whatever else is in the tables; when no shipment is matched the result
\* is the empty table.
C6_InnerJoinExclusion ==
    Returned =>
        /\ \A s \in Range(args.shipments) :
              (\A w \in Range(args.weather) : ~Matching(s, w)) => RowsOfShipment(s) = {}
        /\ (\A s \in Range(args.shipments) : \A w \in Range(args.weather) : ~Matching(s, w))
              => result_df = <<>>

C6_Witness ==
    /\ Returned
    /\ \E s, t \in Range(args.shipments) :
          /\ \A w \in Range(args.weather) : ~Matching(s, w)
          /\ RowsOfShipment(s) = {}
          /\ RowsOfShipment(t) # {}

MatchingWeather(s) == {w \in Range(args.weather) : Matching(s, w)}

CatalogFan(w) == IF CatalogMatches(w) = {} THEN 1 ELSE Cardinality(CatalogMatches(w))

C8_SameNormalizationOnAllKeys ==
    (Returned /\ ~AnyArgEmpty) =>
        /\ \A i \in 1..Len(cities_df) :
              Canonical(cities_df[i].name) /\ SameName(cities_df[i].name, args.cities[i].name)
        /\ \A i \in 1..Len(weather_df) :
              Canonical(weather_df[i].city) /\ SameName(weather_df[i].city, args.weather[i].city)
        /\ \A i \in 1..Len(shipments_df) :
              /\ Canonical(shipments_df[i].city)
              /\ SameName(shipments_df[i].city, args.shipments[i].start_location)
        /\ \A w \in Range(args.weather) : \A c \in Range(args.cities) :
              (c \in CatalogMatches(w)) <=>
                  (\E m \in Range(merged_weather) :
                      m.temperature_2m = w.temperature_2m /\ m.id = Some(c.id))
        /\ \A s \in Range(args.shipments) : \A w \in Range(args.weather) :
              SameHour(s.shipment_start_timestamp, w.timestamp) =>
                  (SameName(s.start_location, w.city) <=> RowsOfPair(s, w) # {})

C8_Witness ==
    /\ Returned
    /\ \E s \in Range(args.shipments), w \in Range(args.weather), c \in Range(args.cities) :
          /\ s.start_location # w.city
          /\ w.city # c.name
          /\ c.name # s.start_location
          /\ \E i \in RowsOfPair(s, w) : result_df[i].city_id = Some(c.id)

\* C9: a shipment and a weather observation of the same location give a row
\* exactly when their timestamps are in the same hour, and every row's
\* timestamp is its shipment's timestamp as passed, minutes included.
C9_HourlyMatchKeepsOriginalTimestamp ==
    (Returned /\ ~AnyArgEmpty) =>
        /\ \A s \in Range(args.shipments) : \A w \in Range(args.weather) :
              SameName(s.start_location, w.city) =>
                  (SameHour(s.shipment_start_timestamp, w.timestamp) <=> RowsOfPair(s, w) # {})
        /\ \A s \in Range(args.shipments) : \A i \in RowsOfShipment(s) :
              /\ result_df[i].timestamp \div (24 * MinutesPerHour) = s.shipment_start_timestamp.day
              /\ (result_df[i].timestamp \div MinutesPerHour) % 24 = s.shipment_start_timestamp.hour
              /\ result_df[i].timestamp % MinutesPerHour = s.shipment_start_timestamp.minute

C9_Witness ==
    /\ Returned
    /\ \E s \in Range(args.shipments), w \in Range(args.weather) :
          /\ s.shipment_start_timestamp = Time(1, 8, 15)
          /\ w.timestamp = Time(1, 8, 0)
          /\ \E i \in RowsOfPair(s, w) :
                result_df[i].timestamp = (24 + 8) * MinutesPerHour + 15

====
